---------------------------- MODULE Spec2Model ----------------------------
(***************************************************************************)
(* Hybrid course retrieval (rag/search.py, rag/vector_store.py), the       *)
(* course-code functions (rag/search.py, etl/pipeline.py) and the serving  *)
(* process with its files (app/app.py, rag/embedder.py).                   *)
(*                                                                         *)
(* Specifications                                                          *)
(*   Spec       the ranker over a loaded corpus, scorers unconstrained     *)
(*   SpecDet    the same with deterministic scorers and a call history     *)
(*   SpecSuffix the ranker over codes that carry a section suffix          *)
(*   SpecCode   the course-code functions applied to texts                 *)
(*   SpecApp    data/, startup and the /query endpoint                     *)
(*                                                                         *)
(* Conventions of the model                                                *)
(*   - a Python str is a sequence of one-character strings; None and a     *)
(*     non-string value are the one-element sequences NoneVal and IntVal;  *)
(*   - a Python dict is a function whose DOMAIN is its key set; a filter   *)
(*     mapping is the sequence of its (key, value) items in insertion      *)
(*     order, because all() short-circuits over them in that order;        *)
(*   - positions are 1-based (p here is index p-1 in the code);            *)
(*   - a float is an integer count of 1/Unit; a float32 keeps 24           *)
(*     significant bits (Float32), a float64 is exact at this resolution.  *)
(***************************************************************************)
EXTENDS Integers, Sequences, FiniteSets, TLC

VARIABLES
    courses,      \* VectorStore.courses == HybridSearch.courses (list of dicts)
    tieOrder,     \* how this build's np.argsort orders equal keys
    model,        \* rag.search._model, the process-wide embedding model
    pc,           \* "idle" | "returned"
    call,         \* the arguments of the call being answered
    ret,          \* what the call produced: status, results, detected code
    encodeCalls,  \* calls of SentenceTransformer.encode made by this call
    bm25Calls,    \* calls of BM25Okapi.get_scores made by this call
    scorer,       \* what is known of the two scorers: "any", or a fixed table
    first,        \* history: the first call answered and what it returned
    fn,           \* a course-code function applied to a string, and its result
    disk,         \* data/: the rows of courses.json, faiss.index, metadata.json
    app,          \* app.app: the lifespan's position, the store, _search
    http,         \* the /query request being answered and its response
    etl,          \* merge_courses: the two input lists and the merged output
    web,          \* the Bulletin scraper's _get: attempts, waits, outcome
    workers,      \* the threads answering queries, each at a line of _get_model
    steps         \* the steps _ensure_data has run, in order

vars == <<courses, tieOrder, model, pc, call, ret, encodeCalls, bm25Calls,
          scorer, first, fn, disk, app, http, etl, web, workers, steps>>

\* the state of the offline jobs and of the worker threads
side == <<etl, web, workers, steps>>

\* the state of the ranker, and the rest
ranker == <<courses, tieOrder, model, pc, call, ret, encodeCalls, bm25Calls,
            scorer, first>>

----------------------------------------------------------------------------
(* Bounds *)

MaxCourses == 3      \* longest corpus
MaxTopK    == 3      \* largest top_k passed by a caller
MaxThreads == 2      \* worker threads of the server answering queries
MaxLetters == 5      \* longest run of letters in a text given to a code function
MaxGap     == 2      \* longest run of whitespace between letters and digits
MaxDigits  == 5      \* longest run of digits

----------------------------------------------------------------------------
(* Python values *)

NoneVal == <<"<None>">>
IntVal  == <<"<int>">>

IsStr(v) == v # NoneVal /\ v # IntVal

LowerChar(ch) ==
    CASE ch = "C" -> "c" [] ch = "S" -> "s" [] ch = "M" -> "m"
      [] ch = "A" -> "a" [] ch = "L" -> "l" [] OTHER -> ch

UpperChar(ch) ==
    CASE ch = "c" -> "C" [] ch = "s" -> "S" [] ch = "m" -> "M"
      [] ch = "a" -> "A" [] ch = "l" -> "L" [] OTHER -> ch

IsLetter(ch) == ch \in {"c", "s", "m", "a", "l", "C", "S", "M", "A", "L"}
IsDigit(ch)  == ch \in {"0", "1", "2", "3"}
IsSpace(ch)  == ch \in {" ", "\t"}

\* str.lower() and str.upper()
Lower(s) == [i \in 1..Len(s) |-> LowerChar(s[i])]
Upper(s) == [i \in 1..Len(s) |-> UpperChar(s[i])]

\* str.replace(" ", ""): drops every blank, and only blanks
RECURSIVE RemoveSpaces(_)
RemoveSpaces(s) ==
    IF s = <<>> THEN <<>>
    ELSE IF Head(s) = " " THEN RemoveSpaces(Tail(s))
         ELSE <<Head(s)>> \o RemoveSpaces(Tail(s))

\* no trimming: the string as given
Strip_none(s) == s

\* str.strip(): drops the whitespace at both ends
RECURSIVE Strip(_)
Strip(s) ==
    IF s = <<>> THEN <<>>
    ELSE IF IsSpace(Head(s)) THEN Strip(Tail(s))
    ELSE IF IsSpace(s[Len(s)]) THEN Strip(SubSeq(s, 1, Len(s) - 1))
    ELSE s

\* a sequence given by a function, as the explicit list of its elements
List(f) == f \o <<>>

\* dict.get(k, "")
Get(c, k) == IF k \in DOMAIN c THEN c[k] ELSE <<>>

----------------------------------------------------------------------------
(* Course codes *)

\* first position >= j of q that is not whitespace (Len(q)+1 if none): \s*
RECURSIVE SkipSpace(_, _)
SkipSpace(q, j) ==
    IF j <= Len(q) /\ IsSpace(q[j]) THEN SkipSpace(q, j + 1) ELSE j

\* the letter-group lengths with which the pattern matches at position i
MatchLens(q, i) ==
    {k \in 2..4 :
        /\ i + k - 1 <= Len(q)
        /\ \A j \in i..(i + k - 1) : IsLetter(q[j])
        /\ LET d == SkipSpace(q, i + k)
           IN  /\ d + 3 <= Len(q)
               /\ \A j \in d..(d + 3) : IsDigit(q[j])}

Max(S) == CHOOSE x \in S : \A y \in S : y <= x
Min(S) == CHOOSE x \in S : \A y \in S : x <= y

\* the last match taken instead of the first
extract_course_code_last(query) ==
    LET starts == {i \in 1..Len(query) : MatchLens(query, i) # {}}
    IN  IF starts = {} THEN NoneVal
        ELSE LET i == Max(starts)
                 k == Max(MatchLens(query, i))
                 d == SkipSpace(query, i + k)
             IN  Upper(SubSeq(query, i, i + k - 1) \o SubSeq(query, d, d + 3))

\* re.search(r'([A-Za-z]{2,4})\s*(\d{4})', query), groups 1 and 2 joined
\* and uppercased; None when nothing matches
extract_course_code(query) ==
    LET starts == {i \in 1..Len(query) : MatchLens(query, i) # {}}
    IN  IF starts = {} THEN NoneVal
        ELSE LET i == Min(starts)
                 k == Max(MatchLens(query, i))
                 d == SkipSpace(query, i + k)
             IN  Upper(SubSeq(query, i, i + k - 1) \o SubSeq(query, d, d + 3))

\* code.strip().upper(): only the ends are cleaned
normalize_course_code_strip(code) == Upper(Strip(code))

\* code.replace(" ", "").upper()
normalize_course_code(code) == Upper(RemoveSpaces(code))

\* etl.pipeline: code.replace(" ", "").upper().strip()
normalize_code(code) == Strip(Upper(RemoveSpaces(code)))

----------------------------------------------------------------------------
(* Floating point *)

\* 1.0; chosen so that 0.1, 0.5, 1/2^k (k <= 5) and their float32 roundings
\* are whole numbers of units
Unit     == 5 * (2 ^ 28)
HalfUnit == Unit \div 2

\* distance between neighbouring float32 values around x (24-bit significand),
\* for 1/32 <= x < 2
RECURSIVE Spacing32(_, _, _)
Spacing32(x, lo, sp) ==
    IF x >= lo \/ sp = 5 THEN sp ELSE Spacing32(x, lo \div 2, sp \div 2)

\* conversion of a Python float to float32: round to nearest, ties to even
Float32(x) ==
    IF x = 0 THEN 0
    ELSE LET sp == Spacing32(x, Unit, 160)
             q  == x \div sp
             r  == x % sp
         IN  IF 2 * r < sp THEN q * sp
             ELSE IF 2 * r > sp THEN (q + 1) * sp
             ELSE IF q % 2 = 0 THEN q * sp ELSE (q + 1) * sp

\* a * f for a normalised score f in {0, 1/2, 1}: exact in binary arithmetic
Times(a, f) == (a \div 2) * (f \div HalfUnit)

\* the raw scores a scorer can report for one position
RawScores == {0, 1}

\* the blend weights callers pass: 0, 0.1, 0.5 (the default), 1
Alphas == {0, Unit \div 10, HalfUnit, Unit}

SeqMin(s) == Min({s[i] : i \in 1..Len(s)})
SeqMax(s) == Max({s[i] : i \in 1..Len(s)})

\* the degenerate case answered with np.ones_like
_normalise_ones(scores) ==
    LET lo == SeqMin(scores)
        hi == SeqMax(scores)
    IN  IF hi = lo THEN List([i \in 1..Len(scores) |-> Unit])
        ELSE List([i \in 1..Len(scores) |-> (scores[i] - lo) * (Unit \div (hi - lo))])

\* min-max normalisation; all zeros when every score is the same
_normalise(scores) ==
    LET lo == SeqMin(scores)
        hi == SeqMax(scores)
    IN  IF hi = lo THEN List([i \in 1..Len(scores) |-> 0])
        ELSE List([i \in 1..Len(scores) |-> (scores[i] - lo) * (Unit \div (hi - lo))])

----------------------------------------------------------------------------
(* Candidate filtering *)

\* a filters argument: None, or a dict given by its items in order
NoFilters      == [given |-> FALSE, items |-> <<>>]
Filters(items) == [given |-> TRUE, items |-> items]

\* `if filters:` is false for None and for the empty dict
Truthy(filters) == filters.given /\ filters.items # <<>>

\* all(c.get(k, "").lower() == v.lower() for k, v in filters.items()) from
\* item i on: "yes", "no", or "raise" when .lower() is called on a value
\* that is not a str; all() stops at the first item that compares unequal
RECURSIVE AllMatch(_, _, _)
AllMatch(c, items, i) ==
    IF i > Len(items) THEN "yes"
    ELSE LET k == items[i][1]
             v == items[i][2]
         IN  IF ~IsStr(Get(c, k)) \/ ~IsStr(v) THEN "raise"
             ELSE IF Lower(Get(c, k)) # Lower(v) THEN "no"
             ELSE AllMatch(c, items, i + 1)

\* the positions of cs, in order, that satisfy the items
RECURSIVE Matching(_, _, _)
Matching(cs, items, i) ==
    IF i > Len(cs) THEN <<>>
    ELSE IF AllMatch(cs[i], items, 1) = "yes"
         THEN <<i>> \o Matching(cs, items, i + 1)
         ELSE Matching(cs, items, i + 1)

\* does building candidate_idx raise?
FilterRaises(cs, filters) ==
    /\ Truthy(filters)
    /\ \E i \in 1..Len(cs) : AllMatch(cs[i], filters.items, 1) = "raise"

\* candidate_idx built without applying the filters
candidate_idx_unfiltered(cs, filters) == List([i \in 1..Len(cs) |-> i])

\* candidate_idx: the list comprehension, or every position without filters
candidate_idx(cs, filters) ==
    IF Truthy(filters) THEN Matching(cs, filters.items, 1)
    ELSE List([i \in 1..Len(cs) |-> i])

----------------------------------------------------------------------------
(* Ranking *)

\* np.argsort(h): the positions of h in ascending order of value. The default
\* kind is not stable, so equal values come out in an order the build fixes:
\* "ascending" position (insertion sort on short arrays) or "descending"
ArgSort(h, ties) ==
    LET n == Len(h)
        Before(j, i) == \/ h[j] < h[i]
                        \/ h[j] = h[i] /\ (IF ties = "ascending" THEN j < i ELSE j > i)
        Rank(i) == 1 + Cardinality({j \in 1..n : Before(j, i)})
    IN  List([r \in 1..n |-> CHOOSE i \in 1..n : Rank(i) = r])

\* the [::-1] left out
Reverse_missing(s) == s

\* s[::-1]
Reverse(s) == List([i \in 1..Len(s) |-> s[Len(s) + 1 - i]])

\* s[:k], for any integer k
Slice(s, k) ==
    IF k >= 0 THEN SubSeq(s, 1, IF k < Len(s) THEN k ELSE Len(s))
    ELSE SubSeq(s, 1, IF Len(s) + k > 0 THEN Len(s) + k ELSE 0)

\* alpha * faiss_norm + (1 - alpha) * bm25_norm: alpha joins the float32
\* array faiss_norm as a float32, 1 - alpha joins the float64 array bm25_norm
\* as a float64, and the sum is a float64
Fuse(alpha, faiss_norm, bm25_norm) ==
    LET alpha32 == Float32(alpha)
        beta    == Unit - alpha
    IN  List([i \in 1..Len(faiss_norm) |->
                Times(alpha32, faiss_norm[i]) + Times(beta, bm25_norm[i])])

\* the loop without its break: the last matching local id is kept
ExactMatchIdx_last(cs, cand, detected) ==
    IF detected = NoneVal THEN 0
    ELSE LET code(l) == Get(cs[cand[l]], "course_code")
             bad  == {l \in 1..Len(cand) : ~IsStr(code(l))}
             hits == {l \in 1..Len(cand) :
                         IsStr(code(l)) /\ normalize_course_code(code(l)) = detected}
         IN  IF bad # {} /\ (hits = {} \/ Min(bad) < Min(hits)) THEN 0 - 1
             ELSE IF hits = {} THEN 0
             ELSE Max(hits)

\* the exact-match loop: the first local id whose normalised code is the
\* detected one, 0 for None, -1 when normalising a code that is not a str
\* raises before a match is found
ExactMatchIdx(cs, cand, detected) ==
    IF detected = NoneVal THEN 0
    ELSE LET code(l) == Get(cs[cand[l]], "course_code")
             bad  == {l \in 1..Len(cand) : ~IsStr(code(l))}
             hits == {l \in 1..Len(cand) :
                         IsStr(code(l)) /\ normalize_course_code(code(l)) = detected}
         IN  IF bad # {} /\ (hits = {} \/ Min(bad) < Min(hits)) THEN 0 - 1
             ELSE IF hits = {} THEN 0
             ELSE Min(hits)

\* exact_match_idx starting as local id 0 instead of None: without a match
\* the first candidate is forced to 1.0
Override_first(hybrid, exact_match_idx) ==
    IF exact_match_idx > 0 THEN [hybrid EXCEPT ![exact_match_idx] = Unit]
    ELSE [hybrid EXCEPT ![1] = Unit]

\* the score of the exact match left as fused
Override_missing(hybrid, exact_match_idx) == hybrid

\* hybrid[local_id] = 1.0
Override(hybrid, exact_match_idx) ==
    IF exact_match_idx > 0 THEN [hybrid EXCEPT ![exact_match_idx] = Unit]
    ELSE hybrid

\* a ranking whose tie order changes once the embedding model is loaded
TopLocal_warm(hybrid, top_k, ties) ==
    Slice(Reverse(ArgSort(hybrid, IF model = "None" THEN ties
                                  ELSE IF ties = "ascending" THEN "descending"
                                  ELSE "ascending")), top_k)

\* np.argsort(hybrid)[::-1][:top_k]
TopLocal(hybrid, top_k, ties) == Slice(Reverse(ArgSort(hybrid, ties)), top_k)

\* dict(self.courses[global_id]) with the four keys set
Scored(course, faiss, bm25, hyb, exact) ==
    ("_faiss_score" :> faiss) @@ ("_bm25_score" :> bm25) @@
    ("_hybrid_score" :> hyb) @@ ("_exact_match" :> exact) @@ course

----------------------------------------------------------------------------
(* The corpus and the callers' inputs *)

\* course records as metadata.json can hold them; only the fields the ranker
\* reads are kept: a code stored canonically, the same code stored lower-case
\* with a blank, another course, and a record with no code and a null
\* department
CourseA == [course_code |-> <<"C", "S", "0", "3", "2", "0">>, department |-> <<"C", "S">>]
CourseB == [course_code |-> <<"c", "s", " ", "0", "3", "2", "0">>, department |-> <<"M", "a">>]
CourseC == [course_code |-> <<"M", "A", "0", "1", "0", "0">>, department |-> <<"M", "a">>]
CourseD == [department |-> NoneVal]

Catalog == <<CourseA, CourseC, CourseB, CourseD>>

\* the sub-lists of ps, in order
RECURSIVE SubLists(_)
SubLists(ps) ==
    IF ps = <<>> THEN {<<>>}
    ELSE LET rest == SubLists(Tail(ps))
         IN  rest \cup {<<Head(ps)>> \o r : r \in rest}

\* every corpus of at most MaxCourses records drawn, in order, from Catalog
Corpora == {cs \in SubLists(Catalog) : Len(cs) <= MaxCourses}

\* query texts: "cs 0320" and "ml"
Queries == {<<"c", "s", " ", "0", "3", "2", "0">>, <<"m", "l">>}

TopKs == (0 - 1)..MaxTopK

\* None, {}, {"department": "ma"}, {"department": "MA", "course_code":
\* "ma0100"}, {"level": ""} (a field no record has), {"department": 5}
FilterInputs ==
    {NoFilters,
     Filters(<<>>),
     Filters(<< <<"department", <<"m", "a">> >> >>),
     Filters(<< <<"department", <<"M", "A">> >>,
                <<"course_code", <<"m", "a", "0", "1", "0", "0">> >> >>),
     Filters(<< <<"level", <<>> >> >>),
     Filters(<< <<"department", IntVal>> >>)}

NoCall == [op |-> "none", text |-> <<>>, top_k |-> 0, alpha |-> 0, filters |-> NoFilters]

NoFirst == [seen |-> FALSE, between |-> FALSE, call |-> NoCall,
            status |-> "none", results |-> <<>>, detected |-> NoneVal]

NoRet == [status |-> "none", results |-> <<>>, detected |-> NoneVal,
          cand |-> <<>>, faiss_raw |-> <<>>, bm25_raw |-> <<>>,
          hybrid |-> <<>>, exact |-> 0, top_local |-> <<>>]

\* no code function applied yet
NoFn == [name |-> "none", arg |-> <<>>, out |-> NoneVal, twice |-> NoneVal]

\* a scrape file written by a run that yields n courses (-1: never written)
Scraped(n) == IF n = 0 - 1 THEN 0 - 1 ELSE 0

\* data/ with every file built from n courses (-1: the file is missing; the
\* records of the two scrape files are not counted)
Built(n) ==
    [bulletin |-> Scraped(n), cab |-> Scraped(n), courses |-> n, index |-> n,
     meta |-> n]

\* the application once the lifespan has yielded, over a store of n rows
Serving(n) == [phase |-> "serving", rows |-> n, bm25 |-> n, search |-> TRUE]

\* the application before it is started: no store, no BM25 index, no _search
Down == [phase |-> "down", rows |-> 0 - 1, bm25 |-> 0 - 1, search |-> FALSE]

\* merge_courses not called
NoEtl == [bulletin |-> <<>>, cab |-> <<>>, out |-> <<>>, done |-> FALSE]

\* _get not called
NoWeb == [pc |-> "idle", retries |-> 0, attempt |-> 0, tries |-> <<>>,
          waits |-> <<>>, result |-> "none", pages |-> <<>>]

\* _ensure_data not called
NoSteps == [seen |-> <<>>, ran |-> <<>>, status |-> "none", left |-> Built(0),
            again |-> FALSE]

\* no worker thread is answering a query; _model is None (held = 0), no
\* SentenceTransformer has been constructed or used
NoWorkers ==
    [threads |-> [t \in 1..MaxThreads |-> [pc |-> "idle", local |-> 0]],
     built |-> 0, held |-> 0, encoded |-> {}]

\* no request being answered
NoHttp == [q |-> <<>>, department |-> NoneVal, status |-> 0,
           searched |-> FALSE, llm |-> FALSE]

----------------------------------------------------------------------------
(* The process *)

\* after VectorStore.load() and HybridSearch(store): the corpus is in memory,
\* the embedding model is not yet constructed, no call is being answered
Init ==
    /\ courses \in Corpora
    /\ tieOrder \in {"ascending", "descending"}
    /\ model = "None"
    /\ pc = "idle"
    /\ call = NoCall
    /\ ret = NoRet
    /\ encodeCalls = 0
    /\ bm25Calls = 0
    /\ scorer = "any"
    /\ first = NoFirst
    /\ fn = NoFn
    /\ disk = Built(Len(courses))
    /\ app = Serving(Len(courses))
    /\ http = NoHttp
    /\ etl = NoEtl
    /\ web = NoWeb
    /\ workers = NoWorkers
    /\ steps = NoSteps

\* three deterministic scorers, by the raw score each gives a record for a
\* text: P1 tells records apart, P2 gives every record the same dense score,
\* P3 tells the records of one department apart in both scores
DenseScore(table, text, c) ==
    IF table = "P1" THEN (IF Get(c, "department") = <<"M", "a">> THEN 1 ELSE 0)
    ELSE IF table = "P2" THEN 0
    ELSE IF Get(c, "course_code") = <<"M", "A", "0", "1", "0", "0">> THEN 1 ELSE 0

LexScore(table, text, c) ==
    IF table = "P1"
    THEN IF /\ IsStr(Get(c, "course_code"))
            /\ normalize_course_code(Get(c, "course_code")) = extract_course_code(text)
         THEN 1 ELSE 0
    ELSE IF table = "P2" THEN (IF "course_code" \in DOMAIN c THEN 1 ELSE 0)
    ELSE IF Get(c, "course_code") = <<"c", "s", " ", "0", "3", "2", "0">> THEN 1 ELSE 0

\* (sub_embs @ qv.T) by corpus position: what the embedding model and the
\* stored rows can yield for this text
FaissResponses(text) ==
    IF scorer = "any" THEN [1..Len(courses) -> RawScores]
    ELSE {List([p \in 1..Len(courses) |-> DenseScore(scorer, text, courses[p])])}

\* self.bm25.get_scores(tokens) by corpus position
Bm25Responses(text) ==
    IF scorer = "any" THEN [1..Len(courses) -> RawScores]
    ELSE {List([p \in 1..Len(courses) |-> LexScore(scorer, text, courses[p])])}

\* return [], None
EmptyResult_no_code(detected_code) == [NoRet EXCEPT !.status = "ok"]

\* return [], detected_code
EmptyResult(detected_code) ==
    [NoRet EXCEPT !.status = "ok", !.detected = detected_code]

\* the results list built from top_local
Results(cs, cand, top_local, faiss_norm, bm25_norm, hybrid, exact_match_idx) ==
    List([r \in 1..Len(top_local) |->
        LET l == top_local[r]
        IN  Scored(cs[cand[l]], faiss_norm[l], bm25_norm[l], hybrid[l],
                   l = exact_match_idx)])

\* the first len(candidate_idx) scores taken, whatever the candidates are
Restrict_head(all, cand) == SubSeq(all, 1, Len(cand))

\* [all[i] for i in candidate_idx]: the scores of the candidates' positions
Restrict(all, cand) == List([l \in 1..Len(cand) |-> all[cand[l]]])

\* the four keys written into the stored record itself (no dict() copy)
CorpusAfter_alias(cs, cand, top_local, results) ==
    List([p \in 1..Len(cs) |->
        IF \E r \in 1..Len(top_local) : cand[top_local[r]] = p
        THEN results[CHOOSE r \in 1..Len(top_local) : cand[top_local[r]] = p]
        ELSE cs[p]])

\* self.courses after the results loop: every write went to `course`, a
\* dict() copy of the stored record, so the stored records are as before
CorpusAfter(cs, cand, top_local, results) == cs

\* HybridSearch.query(text, top_k, alpha, filters); faiss_all[p] is the inner
\* product of the encoded query with embedding row p, bm25_all[p] the BM25
\* score of position p, as the two scorers report them for this text.
\* (A local of the code is bound with \E over a one-element set, which
\* computes it once.)
Query(text, top_k, alpha, filters) ==
    /\ pc = "idle"
    /\ pc' = "returned"
    /\ call' = [op |-> "query", text |-> text, top_k |-> top_k, alpha |-> alpha,
                filters |-> filters]
    /\ UNCHANGED <<tieOrder, scorer>>
    /\ \E detected_code \in {extract_course_code(text)} :
          IF FilterRaises(courses, filters)
          THEN /\ ret' = [NoRet EXCEPT !.status = "raised"]
               /\ UNCHANGED <<courses, model, encodeCalls, bm25Calls>>
          ELSE
       \E cand \in {candidate_idx(courses, filters)} :
          IF cand = <<>>
          THEN /\ ret' = EmptyResult(detected_code)
               /\ UNCHANGED <<courses, model, encodeCalls, bm25Calls>>
          ELSE
          IF cand[Len(cand)] > app.rows
          THEN \* self.store.index.reconstruct(i) raises for a row the index lacks
               /\ ret' = [NoRet EXCEPT !.status = "raised"]
               /\ model' = "loaded"
               /\ encodeCalls' = encodeCalls + 1
               /\ UNCHANGED <<courses, bm25Calls>>
          ELSE
       \E exact_match_idx \in {ExactMatchIdx(courses, cand, detected_code)} :
       \E faiss_all \in FaissResponses(text), bm25_all \in Bm25Responses(text) :
       \E faiss_raw \in {Restrict(faiss_all, cand)},
          bm25_raw  \in {Restrict(bm25_all, cand)} :
       \E faiss_norm \in {_normalise(faiss_raw)},
          bm25_norm  \in {_normalise(bm25_raw)} :
       \E hybrid \in {Override(Fuse(alpha, faiss_norm, bm25_norm), exact_match_idx)} :
       \E top_local \in {TopLocal(hybrid, top_k, tieOrder)} :
       \E results \in {Results(courses, cand, top_local, faiss_norm, bm25_norm,
                               hybrid, exact_match_idx)} :
          /\ model' = "loaded"
          /\ encodeCalls' = encodeCalls + 1
          /\ bm25Calls' = bm25Calls + 1
          /\ courses' = IF exact_match_idx < 0 THEN courses
                        ELSE CorpusAfter(courses, cand, top_local, results)
          /\ ret' = IF exact_match_idx < 0
                    THEN [NoRet EXCEPT !.status = "raised"]
                    ELSE [status    |-> "ok",
                          results   |-> results,
                          detected  |-> detected_code,
                          cand      |-> cand,
                          faiss_raw |-> faiss_raw,
                          bm25_raw  |-> bm25_raw,
                          hybrid    |-> hybrid,
                          exact     |-> exact_match_idx,
                          top_local |-> top_local]

\* VectorStore.search(query_emb, top_k, filters), for top_k >= 1; scores[p] is
\* the inner product of query_emb with row p, and the flat index returns the
\* k best local ids, equal scores in either order
Search(top_k, filters) ==
    /\ pc = "idle"
    /\ top_k >= 1
    /\ pc' = "returned"
    /\ call' = [NoCall EXCEPT !.op = "search", !.top_k = top_k, !.filters = filters]
    /\ UNCHANGED <<courses, tieOrder, model, encodeCalls, bm25Calls, scorer, first>>
    /\ IF FilterRaises(courses, filters)
       THEN ret' = [NoRet EXCEPT !.status = "raised"]
       ELSE
       \E cand \in {candidate_idx(courses, filters)} :
          IF cand = <<>>
          THEN ret' = [NoRet EXCEPT !.status = "ok"]
          ELSE
       \E scores \in [1..Len(courses) -> RawScores], ties \in {"ascending", "descending"} :
       \E sub \in {List([l \in 1..Len(cand) |-> scores[cand[l]]])},
          k   \in {IF top_k < Len(cand) THEN top_k ELSE Len(cand)} :
       \E local_ids \in {Slice(Reverse(ArgSort(sub, ties)), k)} :
          ret' = [NoRet EXCEPT
                    !.status    = "ok",
                    !.results   = List([r \in 1..Len(local_ids) |->
                                           ("_faiss_score" :> sub[local_ids[r]])
                                           @@ courses[cand[local_ids[r]]]]),
                    !.cand      = cand,
                    !.faiss_raw = sub,
                    !.top_local = local_ids]

\* the caller is done with the response; the scored copies are dropped
Discard ==
    /\ pc = "returned"
    /\ pc' = "idle"
    /\ call' = NoCall
    /\ ret' = NoRet
    /\ encodeCalls' = 0
    /\ bm25Calls' = 0
    /\ UNCHANGED <<courses, tieOrder, model, scorer>>

Next ==
    \/ \E text \in Queries, top_k \in TopKs, alpha \in Alphas, filters \in FilterInputs :
          Query(text, top_k, alpha, filters) /\ UNCHANGED <<first, fn, disk, app, http, side>>
    \/ \E top_k \in TopKs, filters \in FilterInputs :
          Search(top_k, filters) /\ UNCHANGED <<fn, disk, app, http, side>>
    \/ Discard /\ UNCHANGED <<first, fn, disk, app, http, side>>

Spec == Init /\ [][Next]_vars

----------------------------------------------------------------------------
(* The same process with deterministic scorers and a record of the first call *)

InitDet ==
    /\ courses \in Corpora
    /\ tieOrder \in {"ascending", "descending"}
    /\ model = "None"
    /\ pc = "idle"
    /\ call = NoCall
    /\ ret = NoRet
    /\ encodeCalls = 0
    /\ bm25Calls = 0
    /\ scorer \in {"P1", "P2", "P3"}
    /\ first = NoFirst
    /\ fn = NoFn
    /\ disk = Built(Len(courses))
    /\ app = Serving(Len(courses))
    /\ http = NoHttp
    /\ etl = NoEtl
    /\ web = NoWeb
    /\ workers = NoWorkers
    /\ steps = NoSteps

\* history only: remember the first call answered, and whether a call with
\* other arguments has been answered since
Record ==
    first' = IF ~first.seen
             THEN [seen |-> TRUE, between |-> FALSE, call |-> call',
                   status |-> ret'.status, results |-> ret'.results,
                   detected |-> ret'.detected]
             ELSE [first EXCEPT !.between = @ \/ call' # first.call]

NextDet ==
    \/ \E text \in Queries, top_k \in {1, MaxTopK}, alpha \in {Unit \div 10, HalfUnit},
          filters \in {NoFilters, Filters(<< <<"department", <<"m", "a">> >> >>)} :
          Query(text, top_k, alpha, filters) /\ Record /\ UNCHANGED <<fn, disk, app, http, side>>
    \/ Discard /\ UNCHANGED <<first, fn, disk, app, http, side>>

SpecDet == InitDet /\ [][NextDet]_vars

----------------------------------------------------------------------------
(* The ranker over a corpus whose codes carry section suffixes *)

\* a record as the scrapers store it when the title block reads "CS 0320A.":
\* letters, digits and a trailing letter
CourseS == [course_code |-> <<"C", "S", "0", "3", "2", "0", "A">>, department |-> <<"C", "S">>]

SuffixCorpora ==
    {<<CourseS>>, <<CourseA, CourseS>>, <<CourseS, CourseA>>, <<CourseC, CourseS>>}

\* "cs0320a" and "cs 0320A"
SuffixQueries ==
    {<<"c", "s", "0", "3", "2", "0", "a">>, <<"c", "s", " ", "0", "3", "2", "0", "A">>}

InitSuffix ==
    /\ courses \in SuffixCorpora
    /\ tieOrder \in {"ascending", "descending"}
    /\ model = "None"
    /\ pc = "idle"
    /\ call = NoCall
    /\ ret = NoRet
    /\ encodeCalls = 0
    /\ bm25Calls = 0
    /\ scorer = "any"
    /\ first = NoFirst
    /\ fn = NoFn
    /\ disk = Built(Len(courses))
    /\ app = Serving(Len(courses))
    /\ http = NoHttp
    /\ etl = NoEtl
    /\ web = NoWeb
    /\ workers = NoWorkers
    /\ steps = NoSteps

NextSuffix ==
    \/ \E text \in SuffixQueries, top_k \in 1..MaxTopK, alpha \in {0, HalfUnit} :
          Query(text, top_k, alpha, NoFilters) /\ UNCHANGED <<first, fn, disk, app, http, side>>
    \/ Discard /\ UNCHANGED <<first, fn, disk, app, http, side>>

SpecSuffix == InitSuffix /\ [][NextSuffix]_vars

----------------------------------------------------------------------------
(* The serving process (app/app.py) and the files of data/ *)

\* top_k=5 of the endpoint's call
EndpointTopK == 5

\* request bodies: q is "", " \t", "cs 0320" or "ml"; department is absent,
\* "" or "ma"
RequestTexts ==
    {<<>>, <<" ", "\t">>, <<"c", "s", " ", "0", "3", "2", "0">>, <<"m", "l">>}

Departments == {NoneVal, <<>>, <<"m", "a">>}

InitApp ==
    /\ courses = <<>>
    /\ tieOrder \in {"ascending", "descending"}
    /\ model = "None"
    /\ pc = "idle"
    /\ call = NoCall
    /\ ret = NoRet
    /\ encodeCalls = 0
    /\ bm25Calls = 0
    /\ scorer = "P1"
    /\ first = NoFirst
    /\ fn = NoFn
    /\ disk = Built(0 - 1)
    /\ app = Down
    /\ http = NoHttp
    /\ etl = NoEtl
    /\ web = NoWeb
    /\ workers = NoWorkers
    /\ steps = NoSteps

\* etl.pipeline.run(): the merged records, n of them, written to courses.json
RunPipeline(n) ==
    /\ disk' = [disk EXCEPT !.courses = n]
    /\ UNCHANGED <<ranker, fn, app, http, side>>

\* rag.embedder.run() (python rag/embedder.py): embeds courses.json and writes
\* embeddings.npy and metadata.json; faiss.index is not touched
RunEmbedder ==
    /\ disk.courses # 0 - 1
    /\ disk' = [disk EXCEPT !.meta = disk.courses]
    /\ UNCHANGED <<ranker, fn, app, http, side>>

\* step 4 runs only when both of its files are missing
StepNeeded_both(d, k) ==
    CASE k = 1 -> d.bulletin = 0 - 1
      [] k = 2 -> d.cab = 0 - 1
      [] k = 3 -> d.courses = 0 - 1
      [] k = 4 -> d.index = 0 - 1 /\ d.meta = 0 - 1

\* the `if not ...exists()` that opens step k of _ensure_data
StepNeeded(d, k) ==
    CASE k = 1 -> d.bulletin = 0 - 1
      [] k = 2 -> d.cab = 0 - 1
      [] k = 3 -> d.courses = 0 - 1
      [] k = 4 -> d.index = 0 - 1 \/ d.meta = 0 - 1

\* data/ after step k has run to its end: a scrape writes its file, the merge
\* writes n records, step 4 embeds courses.json and saves index and metadata
StepDone(d, k, n) ==
    CASE k = 1 -> [d EXCEPT !.bulletin = Scraped(n)]
      [] k = 2 -> [d EXCEPT !.cab = Scraped(n)]
      [] k = 3 -> [d EXCEPT !.courses = n]
      [] k = 4 -> [d EXCEPT !.index = d.courses, !.meta = d.courses]

\* where a run of _ensure_data may raise: nowhere (0), in step 1, 2 or 3
\* before the file is written, in step 4 before run_embedder saves (4) or
\* after it wrote metadata.json and before store.save() (5)
Failures == 0..5

\* _ensure_data from step k on; acc holds data/, the data/ each step found,
\* the steps entered, and how the run has gone
RECURSIVE EnsureFrom(_, _, _, _)
EnsureFrom(acc, k, n, fail) ==
    IF k > 4
    THEN [acc EXCEPT !.status = "ok"]
    ELSE IF ~StepNeeded(acc.disk, k)
    THEN EnsureFrom([acc EXCEPT !.seen = Append(@, acc.disk)], k + 1, n, fail)
    ELSE IF fail = k
    THEN [acc EXCEPT !.seen = Append(@, acc.disk), !.ran = Append(@, k),
                     !.status = "raised"]
    ELSE IF k = 4 /\ fail = 5
    THEN [acc EXCEPT !.seen = Append(@, acc.disk), !.ran = Append(@, k),
                     !.status = "raised",
                     !.disk = [acc.disk EXCEPT !.meta = acc.disk.courses]]
    ELSE EnsureFrom([acc EXCEPT !.seen = Append(@, acc.disk), !.ran = Append(@, k),
                                !.disk = StepDone(acc.disk, k, n)],
                    k + 1, n, fail)

\* _ensure_data() on data/ as d
_ensure_data(d, n, fail) ==
    EnsureFrom([disk |-> d, seen |-> <<>>, ran |-> <<>>, status |-> "none"],
               1, n, fail)

\* python app/app.py: _ensure_data() runs the steps whose output is missing
\* (n: the number of records the merge yields), then the server
\* is launched; an exception in a step ends the process
EnsureData(n, fail) ==
    /\ app.phase = "down"
    /\ \E run \in {_ensure_data(disk, n, fail)} :
          /\ disk' = run.disk
          /\ app' = IF run.status = "ok"
                    THEN [Down EXCEPT !.phase = "launched"]
                    ELSE Down
    /\ UNCHANGED <<ranker, fn, http, etl, web, workers>>

\* what that run of _ensure_data did, noted beside it
LogSteps(n, fail) ==
    \E run \in {_ensure_data(disk, n, fail)} :
        steps' = [seen |-> run.seen, ran |-> run.ran, status |-> run.status,
                  left |-> run.disk,
                  again |-> steps.status = "ok" /\ steps.left = disk]

\* uvicorn app.app:app, or TestClient(app): the module is imported, data/ is
\* taken as it is
Launch ==
    /\ app.phase = "down"
    /\ app' = [Down EXCEPT !.phase = "launched"]
    /\ UNCHANGED <<ranker, fn, disk, http, side>>

\* VectorStore.load(): both files are read, or the read of a missing one raises
load(d) ==
    IF d.index = 0 - 1 \/ d.meta = 0 - 1
    THEN [ok |-> FALSE, rows |-> 0 - 1, courses |-> <<>>]
    ELSE [ok |-> TRUE, rows |-> d.index, courses |-> SubSeq(Catalog, 1, d.meta)]

\* lifespan(), up to the yield: load the store, build the BM25 index, set
\* _search, construct the OpenAI client (which raises without an API key)
Lifespan ==
    /\ app.phase = "launched" /\ pc = "idle" /\ http.status = 0
    /\ \E store \in {load(disk)} :
          IF ~store.ok
          THEN /\ app' = [app EXCEPT !.phase = "failed"]
               /\ UNCHANGED courses
          ELSE /\ courses' = store.courses
               /\ \E key \in BOOLEAN :
                     app' = [phase  |-> IF key THEN "serving" ELSE "failed",
                             rows   |-> store.rows,
                             bm25   |-> Len(store.courses),
                             search |-> TRUE]
    /\ UNCHANGED <<tieOrder, model, pc, call, ret, encodeCalls, bm25Calls,
                   scorer, first, fn, disk, http, side>>

\* the guard of the endpoint left out
SearchReady_unchecked == TRUE

\* assert _search is not None
SearchReady == app.search

\* POST /query with body {"q": q, "department": department}: the handler up
\* to its response
Endpoint(q, department) ==
    /\ app.phase \in {"launched", "serving", "failed"}
    /\ pc = "idle" /\ http.status = 0
    /\ UNCHANGED <<first, fn, disk, app, side>>
    /\ IF Strip(q) = <<>>
       THEN /\ http' = [NoHttp EXCEPT !.q = q, !.department = department,
                                      !.status = 400]
            /\ UNCHANGED <<courses, tieOrder, model, pc, call, ret, encodeCalls,
                           bm25Calls, scorer>>
       ELSE IF ~SearchReady
       THEN /\ http' = [NoHttp EXCEPT !.q = q, !.department = department,
                                      !.status = 500]
            /\ UNCHANGED <<courses, tieOrder, model, pc, call, ret, encodeCalls,
                           bm25Calls, scorer>>
       ELSE
       \E filters \in {IF department # NoneVal /\ department # <<>>
                       THEN Filters(<< <<"department", department>> >>)
                       ELSE NoFilters} :
          /\ Query(q, EndpointTopK, HalfUnit, filters)
          /\ \E llm_ok \in BOOLEAN :
                http' =
                  [q |-> q, department |-> department, searched |-> TRUE,
                   llm |-> ret'.status = "ok" /\ ret'.results # <<>>
                           /\ app.phase = "serving",
                   status |->
                     IF ret'.status # "ok" THEN 500
                     ELSE IF ret'.results = <<>> THEN 200
                     ELSE IF app.phase # "serving" THEN 500
                     ELSE IF ~llm_ok THEN 500
                     ELSE IF \E r \in 1..Len(ret'.results) :
                                "course_code" \notin DOMAIN ret'.results[r]
                          THEN 500
                     ELSE 200]

\* the response is sent; the handler's locals are dropped
Respond ==
    /\ http.status # 0
    /\ http' = NoHttp
    /\ IF pc = "returned" THEN Discard /\ UNCHANGED first ELSE UNCHANGED ranker
    /\ UNCHANGED <<fn, disk, app, side>>

\* the process ends: nothing of it is left in memory
Stop ==
    /\ app.phase # "down" /\ pc = "idle" /\ http.status = 0
    /\ app' = Down
    /\ courses' = <<>>
    /\ model' = "None"
    /\ UNCHANGED <<tieOrder, pc, call, ret, encodeCalls, bm25Calls, scorer,
                   first, fn, disk, http, side>>

NextApp ==
    \/ \E n \in 1..MaxCourses : RunPipeline(n)
    \/ RunEmbedder
    \/ \E n \in 1..MaxCourses, fail \in Failures : EnsureData(n, fail) /\ UNCHANGED steps
    \/ Launch
    \/ Lifespan
    \/ \E q \in RequestTexts, department \in Departments : Endpoint(q, department)
    \/ Respond
    \/ Stop

SpecApp == InitApp /\ [][NextApp]_vars

----------------------------------------------------------------------------
(* The course-code functions applied to texts *)

\* the i-th letter and digit of the texts
LetterAt(i) == <<"c", "S", "m", "A", "l">>[((i - 1) % 5) + 1]
DigitAt(i)  == <<"0", "3", "2", "0", "1">>[((i - 1) % 5) + 1]

\* runs of letters and of digits, by length
LetterGroups == {List([i \in 1..n |-> LetterAt(i)]) : n \in 0..MaxLetters}
DigitGroups  == {List([i \in 1..n |-> DigitAt(i)]) : n \in 0..MaxDigits}

\* what stands between the letters and the digits: blanks and tabs, or "-"
Gaps ==
    {<<"-">>} \cup UNION {{List(g) : g \in [1..n -> {" ", "\t"}]} : n \in 0..MaxGap}

\* what comes before: nothing, "c", "\t", "0 ", "ml ", "cs 032 "
Pres ==
    {<<>>, <<"c">>, <<"\t">>, <<"0", " ">>, <<"m", "l", " ">>,
     <<"c", "s", " ", "0", "3", "2", " ">>}

\* what comes after: nothing, "a", "\t", " ma0100"
Posts == {<<>>, <<"a">>, <<"\t">>, <<" ", "m", "a", "0", "1", "0", "0">>}

Texts ==
    {pre \o let \o gap \o dig \o post :
        pre \in Pres, let \in LetterGroups, gap \in Gaps, dig \in DigitGroups,
        post \in Posts}

\* a text is given; no function has been applied to it yet
InitCode ==
    /\ courses = <<>>
    /\ tieOrder = "ascending"
    /\ model = "None"
    /\ pc = "idle"
    /\ call = NoCall
    /\ ret = NoRet
    /\ encodeCalls = 0
    /\ bm25Calls = 0
    /\ scorer = "any"
    /\ first = NoFirst
    /\ fn \in {[NoFn EXCEPT !.arg = s] : s \in Texts}
    /\ disk = Built(0)
    /\ app = Serving(0)
    /\ http = NoHttp
    /\ etl = NoEtl
    /\ web = NoWeb
    /\ workers = NoWorkers
    /\ steps = NoSteps

\* extract_course_code(fn.arg)
ExtractCode ==
    /\ fn.name = "none"
    /\ fn' = [fn EXCEPT !.name = "extract_course_code",
                        !.out = extract_course_code(fn.arg)]
    /\ UNCHANGED <<ranker, disk, app, http, side>>

\* normalize_course_code(fn.arg)
NormalizeCourseCode ==
    /\ fn.name = "none"
    /\ fn' = [fn EXCEPT !.name = "normalize_course_code",
                        !.out = normalize_course_code(fn.arg)]
    /\ UNCHANGED <<ranker, disk, app, http, side>>

\* etl.pipeline.normalize_code(fn.arg)
NormalizeCode ==
    /\ fn.name = "none"
    /\ fn' = [fn EXCEPT !.name = "normalize_code",
                        !.out = normalize_code(fn.arg)]
    /\ UNCHANGED <<ranker, disk, app, http, side>>

\* the same canonicalisation applied to its own result
Again ==
    /\ fn.name \in {"normalize_course_code", "normalize_code"}
    /\ fn.twice = NoneVal
    /\ fn' = [fn EXCEPT !.twice = IF fn.name = "normalize_code"
                                  THEN normalize_code(fn.out)
                                  ELSE normalize_course_code(fn.out)]
    /\ UNCHANGED <<ranker, disk, app, http, side>>

NextCode ==
    \/ ExtractCode
    \/ NormalizeCourseCode
    \/ NormalizeCode
    \/ Again

SpecCode == InitCode /\ [][NextCode]_vars

----------------------------------------------------------------------------
(* Properties of HybridSearch.query and VectorStore.search *)

\* a query call has returned normally
Returned == pc = "returned" /\ call.op = "query" /\ ret.status = "ok"

\* the keys query adds to a returned copy
ScoreKeys == {"_faiss_score", "_bm25_score", "_hybrid_score", "_exact_match"}

\* a returned record without the added keys
Stored(res) == [k \in (DOMAIN res) \ ScoreKeys |-> res[k]]

\* the canonical code of a record, "" when it has none
CodeOf(c) == normalize_course_code(Get(c, "course_code"))

\* the local ids of the candidates whose canonical code is the detected one
ExactCands ==
    {l \in 1..Len(ret.cand) :
        ret.detected # NoneVal /\ CodeOf(courses[ret.cand[l]]) = ret.detected}

\* C1: when top_k >= 1 and the detected identifier is the canonical code of
\* exactly one candidate, that candidate is the first returned record
C1_ExactMatchFirst ==
    (Returned /\ call.top_k >= 1 /\ Cardinality(ExactCands) = 1)
        => \A l \in ExactCands : Stored(ret.results[1]) = courses[ret.cand[l]]

\* C2: when a candidate carries the detected identifier, the (first such)
\* candidate, if returned, has _hybrid_score exactly 1.0 and _exact_match
\* true, and every other returned record has _exact_match false
C2_ExactMatchMarked ==
    (Returned /\ ExactCands # {})
        => \A r \in 1..Len(ret.results) :
              IF Stored(ret.results[r]) = courses[ret.cand[Min(ExactCands)]]
              THEN /\ ret.results[r]["_hybrid_score"] = Unit
                   /\ ret.results[r]["_exact_match"] = TRUE
              ELSE ret.results[r]["_exact_match"] = FALSE

C2_Witness ==
    /\ Returned /\ ExactCands # {}
    /\ Len(ret.results) >= 2
    /\ \E r \in 1..Len(ret.results) : ret.results[r]["_exact_match"]
    /\ \E r \in 1..Len(ret.results) : ret.results[r]["_hybrid_score"] < Unit

\* C3: with alpha in [0,1], every returned _hybrid_score, _faiss_score and
\* _bm25_score lies in [0,1]
C3_ScoresInUnitInterval ==
    Returned
        => \A r \in 1..Len(ret.results) :
              \A k \in {"_hybrid_score", "_faiss_score", "_bm25_score"} :
                 0 <= ret.results[r][k] /\ ret.results[r][k] <= Unit

\* C4: every record returned under filters, by query or by search, satisfies
\* every criterion by case-insensitive string equality
C4_FilterCorrect ==
    (pc = "returned" /\ ret.status = "ok" /\ Truthy(call.filters))
        => \A r \in 1..Len(ret.results) :
              \A i \in 1..Len(call.filters.items) :
                 LET k == call.filters.items[i][1]
                     v == call.filters.items[i][2]
                 IN  /\ IsStr(Get(ret.results[r], k)) /\ IsStr(v)
                     /\ Lower(Get(ret.results[r], k)) = Lower(v)

\* a filtered query returned records although the record that carries the
\* detected identifier fails the filter
C4_Witness ==
    /\ Returned /\ Truthy(call.filters) /\ ret.results # <<>>
    /\ ret.detected # NoneVal
    /\ \E p \in 1..Len(courses) :
          /\ CodeOf(courses[p]) = ret.detected
          /\ AllMatch(courses[p], call.filters.items, 1) = "no"

\* C5: the returned list never has more than top_k records, and when top_k
\* is at least the number of candidates it holds every candidate exactly once
C5_AtMostTopK ==
    Returned
        => /\ Len(ret.results) <= call.top_k
           /\ call.top_k >= Len(ret.cand)
                 => /\ Len(ret.results) = Len(ret.cand)
                    /\ \A l \in 1..Len(ret.cand) :
                          \E r \in 1..Len(ret.results) :
                             Stored(ret.results[r]) = courses[ret.cand[l]]

\* C6: two returned records with equal fused score appear in candidate
\* order, the lower corpus position first
C6_StableTies ==
    Returned
        => \A r1, r2 \in 1..Len(ret.results) :
              (r1 < r2 /\ ret.results[r1]["_hybrid_score"] = ret.results[r2]["_hybrid_score"])
                 => ret.cand[ret.top_local[r1]] < ret.cand[ret.top_local[r2]]

\* C7: the returned list is ordered by _hybrid_score non-increasing, and no
\* candidate cut off by top_k has a fused score above a returned one
C7_SortedDescending ==
    Returned
        => /\ \A r \in 1..(Len(ret.results) - 1) :
                 ret.results[r]["_hybrid_score"] >= ret.results[r + 1]["_hybrid_score"]
           /\ \A l \in 1..Len(ret.cand) :
                 (\A r \in 1..Len(ret.results) : Stored(ret.results[r]) # courses[ret.cand[l]])
                    => \A r \in 1..Len(ret.results) :
                          ret.hybrid[l] <= ret.results[r]["_hybrid_score"]

C7_Witness ==
    /\ Returned
    /\ Len(ret.results) >= 2 /\ Len(ret.results) < Len(ret.cand)
    /\ ret.results[1]["_hybrid_score"] > ret.results[2]["_hybrid_score"]
    /\ \E l \in 1..Len(ret.cand) : ret.hybrid[l] < ret.results[2]["_hybrid_score"]

C9_EmptyCandidates ==
    (/\ pc = "returned" /\ call.op = "query"
     /\ ~FilterRaises(courses, call.filters)
     /\ candidate_idx(courses, call.filters) = <<>>)
        => /\ ret.status = "ok"
           /\ ret.results = <<>>
           /\ ret.detected = extract_course_code(call.text)
           /\ encodeCalls = 0 /\ bm25Calls = 0

\* the filters left nothing of a non-empty corpus, and the text has a code
C9_Witness ==
    /\ pc = "returned" /\ call.op = "query"
    /\ courses # <<>> /\ Truthy(call.filters)
    /\ ~FilterRaises(courses, call.filters)
    /\ candidate_idx(courses, call.filters) = <<>>
    /\ ret.detected # NoneVal

\* C10: candidate filtering never raises, whatever the filter mapping and
\* the records
C10_FilterNeverRaises ==
    (pc = "returned" /\ Truthy(call.filters)) => ret.status # "raised"

\* every element of a score vector is the same
AllEqual(s) == \A i, j \in 1..Len(s) : s[i] = s[j]

\* C11: when every candidate has the same raw score in one vector (a single
\* candidate included), every returned record's normalised score for that
\* vector is 0, whatever the other vector holds
C11_DegenerateIsZero ==
    Returned
        => /\ AllEqual(ret.faiss_raw)
                 => \A r \in 1..Len(ret.results) : ret.results[r]["_faiss_score"] = 0
           /\ AllEqual(ret.bm25_raw)
                 => \A r \in 1..Len(ret.results) : ret.results[r]["_bm25_score"] = 0

\* several candidates share a non-zero raw dense score while their lexical
\* scores differ, and a returned record has lexical score 1.0
C11_Witness ==
    /\ Returned
    /\ Len(ret.cand) >= 2 /\ AllEqual(ret.faiss_raw) /\ ret.faiss_raw[1] # 0
    /\ ~AllEqual(ret.bm25_raw)
    /\ \E r \in 1..Len(ret.results) :
          ret.results[r]["_faiss_score"] = 0 /\ ret.results[r]["_bm25_score"] = Unit

\* C12: every returned record that is not the exact-match override has
\* _hybrid_score = alpha * _faiss_score + (1 - alpha) * _bm25_score
C12_FusionFormula ==
    Returned
        => \A r \in 1..Len(ret.results) :
              ~ret.results[r]["_exact_match"]
                 => ret.results[r]["_hybrid_score"]
                       = Times(call.alpha, ret.results[r]["_faiss_score"])
                         + Times(Unit - call.alpha, ret.results[r]["_bm25_score"])

----------------------------------------------------------------------------
(* Properties of the course-code functions *)

\* s has, from position i on, k letters, then w whitespace characters, then
\* four digits
CodeAt(s, i, k, w) ==
    /\ i + k + w + 3 <= Len(s)
    /\ \A j \in i..(i + k - 1) : IsLetter(s[j])
    /\ \A j \in (i + k)..(i + k + w - 1) : IsSpace(s[j])
    /\ \A j \in (i + k + w)..(i + k + w + 3) : IsDigit(s[j])

\* a code starts at position i of s
HasCode(s, i) == \E k \in 2..4, w \in 0..Len(s) : CodeAt(s, i, k, w)

\* C13: extract_course_code returns the leftmost group of 2 to 4 letters,
\* optional whitespace and 4 digits, uppercased and without the whitespace,
\* and None when the text has no such group
C13_ExtractLeftmost ==
    fn.name = "extract_course_code"
        => LET s  == fn.arg
               at == {i \in 1..Len(s) : HasCode(s, i)}
           IN  IF at = {} THEN fn.out = NoneVal
               ELSE \E k \in 2..4, w \in 0..Len(s) :
                       /\ CodeAt(s, Min(at), k, w)
                       /\ fn.out = Upper(SubSeq(s, Min(at), Min(at) + k - 1)
                                         \o SubSeq(s, Min(at) + k + w, Min(at) + k + w + 3))

\* the text holds two codes, the first after other characters and written
\* in lower case with whitespace inside; the first is returned
C13_Witness ==
    /\ fn.name = "extract_course_code" /\ fn.out # NoneVal
    /\ ~HasCode(fn.arg, 1)
    /\ Cardinality({i \in 1..Len(fn.arg) : HasCode(fn.arg, i)}) >= 3
    /\ \E i \in 1..Len(fn.arg) : fn.arg[i] = "\t"
    /\ fn.out # <<"M", "A", "0", "1", "0", "0">>

\* C14: for a string made of 2 to 4 letters, whitespace of any kind and 4
\* digits, extract_course_code and normalize_course_code give the same code
C14_SameCanonicalForm ==
    (/\ fn.name = "extract_course_code"
     /\ \E k \in 2..4, w \in 0..Len(fn.arg) :
           CodeAt(fn.arg, 1, k, w) /\ Len(fn.arg) = k + w + 4)
        => fn.out = normalize_course_code(fn.arg)

\* C15: normalize_course_code and normalize_code are idempotent, and their
\* result is uppercase and holds no space
C15_NormalizeIdempotent ==
    fn.name \in {"normalize_course_code", "normalize_code"}
        => /\ Upper(fn.out) = fn.out
           /\ \A i \in 1..Len(fn.out) : fn.out[i] # " "
           /\ fn.twice # NoneVal => fn.twice = fn.out

\* a text with blanks, a tab and lower-case letters was canonicalised twice
C15_Witness ==
    /\ fn.name = "normalize_course_code" /\ fn.twice # NoneVal
    /\ fn.out # fn.arg
    /\ \E i \in 1..Len(fn.arg) : fn.arg[i] = " "
    /\ \E i \in 1..Len(fn.arg) : fn.arg[i] = "\t"
    /\ \E i \in 1..Len(fn.arg) : fn.arg[i] = "c"

\* text holds code, whatever the case of its letters and with blanks allowed
Holds(text, code) ==
    \E i \in 1..Len(text), j \in 1..Len(text) :
        i <= j /\ Upper(RemoveSpaces(SubSeq(text, i, j))) = code

\* C16: when the query holds the full code of a candidate whose code ends in
\* a suffix letter, the detected identifier is that code and that candidate
\* is the exact match
C16_SuffixDetected ==
    Returned
        => \A l \in 1..Len(ret.cand) :
              LET code == CodeOf(courses[ret.cand[l]])
              IN  (/\ code # <<>> /\ IsLetter(code[Len(code)])
                   /\ Holds(call.text, code))
                     => ret.detected = code /\ ret.exact = l

----------------------------------------------------------------------------
(* Properties of the shared state *)

----------------------------------------------------------------------------
(* Properties of the serving process *)

\* C18: a store that load has returned has as many embedding rows as course
\* records
C18_LoadChecksRowCounts ==
    app.rows # 0 - 1 => app.rows = Len(courses)

\* every character of q is whitespace (the empty q included)
Blank(q) == \A i \in 1..Len(q) : IsSpace(q[i])

\* C19: a request whose q is empty or whitespace-only is answered 400 and
\* neither the search, the embedding model nor the LLM is invoked for it; the
\* search never receives such a q
C19_EmptyQueryRejected ==
    /\ (http.status # 0 /\ Blank(http.q))
          => /\ http.status = 400
             /\ ~http.searched /\ ~http.llm
             /\ pc = "idle" /\ encodeCalls = 0 /\ bm25Calls = 0
    /\ (pc = "returned" /\ call.op = "query") => ~Blank(call.text)

\* a whitespace-only q was rejected by the serving application
C19_Witness ==
    /\ http.status = 400 /\ http.q # <<>> /\ Blank(http.q)
    /\ app.phase = "serving" /\ courses # <<>>

\* C20: the endpoint runs a search only when startup has loaded the store
\* and built the BM25 index over its records
C20_SearchAfterStartup ==
    (http.searched \/ pc = "returned")
        => app.rows # 0 - 1 /\ app.bm25 = Len(courses)

\* a request that came before the lifespan had run, with the artifacts on
\* disk, was answered without a search
C20_Witness ==
    /\ http.status = 500 /\ ~Blank(http.q) /\ ~http.searched
    /\ app.phase = "launched" /\ app.bm25 = 0 - 1
    /\ disk.index > 0 /\ disk.meta > 0
    /\ pc = "idle"

----------------------------------------------------------------------------
(* Further properties of HybridSearch.query *)

\* the fused scores of the call before any override
Fused == Fuse(call.alpha, _normalise(ret.faiss_raw), _normalise(ret.bm25_raw))

\* the ranks of the returned records flagged as the exact match
Flagged == {r \in 1..Len(ret.results) : ret.results[r]["_exact_match"]}

\* C26: when several candidates carry the detected identifier, only the
\* first of them in candidate order is forced to 1.0 and flagged, and a
\* response never has more than one flagged record
C26_FirstDuplicateOnly ==
    Returned
        => /\ Cardinality(Flagged) <= 1
           /\ \A r \in Flagged : ret.top_local[r] = Min(ExactCands)
           /\ \A l \in ExactCands :
                 IF l = Min(ExactCands) THEN ret.hybrid[l] = Unit
                 ELSE ret.hybrid[l] = Fused[l]

\* two candidates carry the detected identifier, both are returned, the
\* second with a fused score below 1.0 and without the flag
C26_Witness ==
    /\ Returned /\ Cardinality(ExactCands) >= 2
    /\ Cardinality(Flagged) = 1
    /\ \E r \in 1..Len(ret.results) :
          /\ ret.top_local[r] \in ExactCands
          /\ ~ret.results[r]["_exact_match"]
          /\ ret.results[r]["_hybrid_score"] < Unit

\* C27: a flagged record carries the detected identifier; when nothing is
\* detected, or no candidate carries the detected identifier, no record is
\* flagged and every fused score is as the fusion left it
C27_FlagOnlyOnMatch ==
    Returned
        => /\ \A r \in Flagged :
                 /\ ret.detected # NoneVal
                 /\ CodeOf(Stored(ret.results[r])) = ret.detected
           /\ ExactCands = {}
                 => /\ Flagged = {}
                    /\ ret.cand # <<>> => ret.hybrid = Fused

\* a code is detected and a stored record carries it, but the filters leave
\* that record out; what is returned is unflagged and below 1.0
C27_Witness ==
    /\ Returned /\ ret.detected # NoneVal /\ ExactCands = {}
    /\ \E p \in 1..Len(courses) : CodeOf(courses[p]) = ret.detected
    /\ Truthy(call.filters) /\ ret.results # <<>>
    /\ \A r \in 1..Len(ret.results) : ret.results[r]["_hybrid_score"] < Unit

\* the raw scores of the candidates' corpus positions under the fixed scorers
DenseAt == List([l \in 1..Len(ret.cand) |-> DenseScore(scorer, call.text, courses[ret.cand[l]])])
LexAt   == List([l \in 1..Len(ret.cand) |-> LexScore(scorer, call.text, courses[ret.cand[l]])])

\* C30: every returned record is the stored record of one corpus position
\* that passed the filter, with the normalised dense and lexical scores of
\* that same position, and no position is returned twice
C30_PositionsAligned ==
    Returned
        => /\ \A r \in 1..Len(ret.results) :
                 \E l \in 1..Len(ret.cand) :
                    /\ Stored(ret.results[r]) = courses[ret.cand[l]]
                    /\ Truthy(call.filters)
                          => AllMatch(courses[ret.cand[l]], call.filters.items, 1) = "yes"
                    /\ ret.results[r]["_faiss_score"] = _normalise(DenseAt)[l]
                    /\ ret.results[r]["_bm25_score"] = _normalise(LexAt)[l]
           /\ \A r1, r2 \in 1..Len(ret.results) :
                 r1 # r2 => Stored(ret.results[r1]) # Stored(ret.results[r2])

\* a filter left out the first corpus position, so candidate and corpus
\* positions differ, and the returned records differ in both scores
C30_Witness ==
    /\ Returned /\ Truthy(call.filters)
    /\ Len(ret.cand) >= 2 /\ ret.cand[1] > 1
    /\ Len(ret.results) >= 2
    /\ ret.results[1]["_faiss_score"] # ret.results[2]["_faiss_score"]
    /\ ret.results[1]["_bm25_score"] # ret.results[2]["_bm25_score"]

----------------------------------------------------------------------------
(* etl.pipeline.merge_courses *)

MaxSource == 2       \* longest list of scraped records given to merge_courses

\* the fields CAB may fill in, in the order the loop visits them
MERGE_FIELDS ==
    <<"description", "prerequisites", "title", "department", "instructor",
      "meeting_times">>

\* dict.get(k): None when the key is missing
GetNone(c, k) == IF k \in DOMAIN c THEN c[k] ELSE NoneVal

\* `not v` for a string or None
Falsy(v) == v = <<>> \/ v = NoneVal

\* d[k] = v on a record
SetKey(c, k, v) == [x \in (DOMAIN c) \cup {k} |-> IF x = k THEN v ELSE c[x]]

\* {**course, "course_code": code}
WithCode(course, code) == SetKey(course, "course_code", code)

\* the dict `index` is the list of its values in insertion order, every value
\* stored under its own course_code; `code in index` is PosOf(index, code) # 0
PosOf(index, code) ==
    IF \E p \in 1..Len(index) : index[p]["course_code"] = code
    THEN CHOOSE p \in 1..Len(index) : index[p]["course_code"] = code
    ELSE 0

\* index[code] = rec: an existing key keeps its place, a new key goes last
Put(index, code, rec) ==
    IF PosOf(index, code) = 0
    THEN Append(index, rec)
    ELSE [index EXCEPT ![PosOf(index, code)] = rec]

\* the first loop, over the first n Bulletin records
RECURSIVE IndexBulletin(_, _)
IndexBulletin(bulletin, n) ==
    IF n = 0
    THEN <<>>
    ELSE LET code == normalize_code(Get(bulletin[n], "course_code"))
         IN  IF code # <<>>
             THEN Put(IndexBulletin(bulletin, n - 1), code, WithCode(bulletin[n], code))
             ELSE IndexBulletin(bulletin, n - 1)

\* the CAB value always wins
BackFill_overwrite(rec, course) ==
    LET filled == {MERGE_FIELDS[k] : k \in {k \in 1..Len(MERGE_FIELDS) :
                      ~Falsy(GetNone(course, MERGE_FIELDS[k]))}}
    IN  [x \in (DOMAIN rec) \cup filled |-> IF x \in filled THEN course[x] ELSE rec[x]]

\* the loop over MERGE_FIELDS: a field still empty takes CAB's non-empty value
BackFill(rec, course) ==
    LET filled == {MERGE_FIELDS[k] : k \in {k \in 1..Len(MERGE_FIELDS) :
                      /\ Falsy(GetNone(rec, MERGE_FIELDS[k]))
                      /\ ~Falsy(GetNone(course, MERGE_FIELDS[k]))}}
    IN  [x \in (DOMAIN rec) \cup filled |-> IF x \in filled THEN course[x] ELSE rec[x]]

\* one pass of the second loop: the CAB record `course` on the dict `index`
MergeOne(index, course, code) ==
    IF code = <<>>
    THEN index
    ELSE IF PosOf(index, code) # 0
         THEN [index EXCEPT ![PosOf(index, code)] =
                  SetKey(BackFill(index[PosOf(index, code)], course),
                         "source", "CAB+Bulletin")]
         ELSE Append(index, WithCode(course, code))

\* the second loop, over the first n CAB records
RECURSIVE MergeCab(_, _, _)
MergeCab(index, cab, n) ==
    IF n = 0
    THEN index
    ELSE MergeOne(MergeCab(index, cab, n - 1), cab[n],
                  normalize_code(Get(cab[n], "course_code")))

\* list(index.values())
merge_courses(cab, bulletin) ==
    MergeCab(IndexBulletin(bulletin, Len(bulletin)), cab, Len(cab))

\* Bulletin records given to merge_courses: "CS 0320" without instructor,
\* "cs0320" without title, MA0100 without the instructor key, a record
\* without code, and "cs<tab>0320"
BulletinPool ==
    {[course_code |-> <<"C", "S", " ", "0", "3", "2", "0">>, title |-> <<"T">>,
      instructor |-> <<>>, source |-> "Bulletin"],
     [course_code |-> <<"c", "s", "0", "3", "2", "0">>, title |-> <<>>,
      instructor |-> <<"I">>, source |-> "Bulletin"],
     [course_code |-> <<"M", "A", "0", "1", "0", "0">>, title |-> <<"T">>,
      source |-> "Bulletin"],
     [course_code |-> <<>>, title |-> <<"T">>, instructor |-> <<>>,
      source |-> "Bulletin"],
     [course_code |-> <<"c", "s", "\t", "0", "3", "2", "0">>, title |-> <<"T">>,
      instructor |-> <<>>, source |-> "Bulletin"]}

\* CAB records given to merge_courses: CS0320 complete, "cs 0320" without
\* title, ML0200, and a blank code
CabPool ==
    {[course_code |-> <<"C", "S", "0", "3", "2", "0">>, title |-> <<"U">>,
      instructor |-> <<"J">>, source |-> "CAB"],
     [course_code |-> <<"c", "s", " ", "0", "3", "2", "0">>, title |-> <<>>,
      instructor |-> <<"K">>, prerequisites |-> <<"P">>, source |-> "CAB"],
     [course_code |-> <<"M", "L", "0", "2", "0", "0">>, title |-> <<"U">>,
      instructor |-> NoneVal, source |-> "CAB"],
     [course_code |-> <<" ">>, title |-> <<"U">>, instructor |-> <<>>,
      source |-> "CAB"]}

\* the lists of at most MaxSource records over a pool
ListsOver(pool) == UNION {{List(l) : l \in [1..n -> pool]} : n \in 0..MaxSource}

\* the two scraped lists are given; merge_courses has not run
InitMerge ==
    /\ courses = <<>>
    /\ tieOrder = "ascending"
    /\ model = "None"
    /\ pc = "idle"
    /\ call = NoCall
    /\ ret = NoRet
    /\ encodeCalls = 0
    /\ bm25Calls = 0
    /\ scorer = "any"
    /\ first = NoFirst
    /\ fn = NoFn
    /\ disk = Built(0)
    /\ app = Down
    /\ http = NoHttp
    /\ etl \in {[NoEtl EXCEPT !.bulletin = b, !.cab = c] :
                   b \in ListsOver(BulletinPool), c \in ListsOver(CabPool)}
    /\ web = NoWeb
    /\ workers = NoWorkers
    /\ steps = NoSteps

\* merged = merge_courses(cab, bulletin)
Merge ==
    /\ ~etl.done
    /\ etl' = [etl EXCEPT !.out = merge_courses(etl.cab, etl.bulletin),
                          !.done = TRUE]
    /\ UNCHANGED <<ranker, fn, disk, app, http, web, workers, steps>>

NextMerge == Merge

SpecMerge == InitMerge /\ [][NextMerge]_vars

(* Properties of merge_courses *)

\* the canonical codes of a list of scraped records
CodesIn(list) ==
    {normalize_code(Get(list[i], "course_code")) : i \in 1..Len(list)} \ {<<>>}

\* a code in the corpus form: upper case, no whitespace
Canonical(code) ==
    \A k \in 1..Len(code) : ~IsSpace(code[k]) /\ code[k] = UpperChar(code[k])

\* C21: every record merge_courses returns has a non-empty canonical
\* course_code, and no two returned records have the same course_code
C21_UniqueCanonicalCodes ==
    etl.done =>
        /\ \A i \in 1..Len(etl.out) :
              /\ etl.out[i]["course_code"] # <<>>
              /\ Canonical(etl.out[i]["course_code"])
        /\ \A i, j \in 1..Len(etl.out) :
              i # j => etl.out[i]["course_code"] # etl.out[j]["course_code"]

\* the records of a list with the canonical code `code`, in list order
WithCodeIn(list, code) ==
    {i \in 1..Len(list) : normalize_code(Get(list[i], "course_code")) = code}

\* the Bulletin record a code ends up with: the last one carrying it
BulletinRecord(code) == etl.bulletin[Max(WithCodeIn(etl.bulletin, code))]

\* the CAB records with this code that have a value for the field
CabFilled(code, field) ==
    {i \in WithCodeIn(etl.cab, code) : ~Falsy(GetNone(etl.cab[i], field))}

\* C22: for a code present in both sources, each merged field of the output
\* is the Bulletin value when that is non-empty, and otherwise the CAB value
\* (the first non-empty one, or empty when CAB has none)
C22_BulletinValuePreferred ==
    etl.done =>
        \A i \in 1..Len(etl.out) : \A k \in 1..Len(MERGE_FIELDS) :
            LET code == etl.out[i]["course_code"]
                field == MERGE_FIELDS[k]
                got == GetNone(etl.out[i], field)
            IN  (code \in CodesIn(etl.bulletin) /\ code \in CodesIn(etl.cab)) =>
                    IF ~Falsy(GetNone(BulletinRecord(code), field))
                    THEN got = BulletinRecord(code)[field]
                    ELSE IF CabFilled(code, field) # {}
                         THEN got = etl.cab[Min(CabFilled(code, field))][field]
                         ELSE Falsy(got)

\* "CS 0320" of the Bulletin met CS0320 of CAB: the title stayed the
\* Bulletin's although CAB has another one, the empty instructor became CAB's
C22_Witness ==
    /\ etl.done
    /\ \E i \in 1..Len(etl.out) :
          /\ etl.out[i]["course_code"] = <<"C", "S", "0", "3", "2", "0">>
          /\ etl.out[i]["title"] = <<"T">>
          /\ etl.out[i]["instructor"] = <<"J">>
          /\ \E b \in 1..Len(etl.bulletin) :
                GetNone(etl.bulletin[b], "instructor") = <<>>
          /\ \E c \in 1..Len(etl.cab) : GetNone(etl.cab[c], "title") = <<"U">>

\* C23: the source of a returned record is "CAB+Bulletin" exactly when its
\* code occurs in both input lists; a record whose code occurs in one list
\* only keeps the source that list gave it
C23_SourceReflectsProvenance ==
    etl.done =>
        \A i \in 1..Len(etl.out) :
            LET code == etl.out[i]["course_code"]
                inB == code \in CodesIn(etl.bulletin)
                inC == code \in CodesIn(etl.cab)
            IN  /\ (etl.out[i]["source"] = "CAB+Bulletin") <=> (inB /\ inC)
                /\ (inB /\ ~inC) => etl.out[i]["source"] = "Bulletin"
                /\ (inC /\ ~inB) => etl.out[i]["source"] = "CAB"

\* 1 for a Bulletin-only record, 2 for a merged one, 3 for a CAB-only one
Provenance(rec) ==
    IF rec["course_code"] \notin CodesIn(etl.cab) THEN 1
    ELSE IF rec["course_code"] \in CodesIn(etl.bulletin) THEN 2
    ELSE 3

\* C24: merge_courses returns Bulletin-only records first, then merged ones,
\* then CAB-only ones
C24_OrderedByProvenance ==
    etl.done =>
        \A i, j \in 1..Len(etl.out) :
            i < j => Provenance(etl.out[i]) <= Provenance(etl.out[j])

----------------------------------------------------------------------------
(* _ensure_data, run after run *)

\* python app/app.py again and again, the process stopped in between, with
\* the merge and the embedder also run by hand
NextData ==
    \/ \E n \in 1..MaxCourses, fail \in Failures :
          EnsureData(n, fail) /\ LogSteps(n, fail)
    \/ Stop
    \/ \E n \in 1..MaxCourses : RunPipeline(n)
    \/ RunEmbedder

SpecData == InitApp /\ [][NextData]_vars

\* the files step k is there to produce
Outputs(k) == <<{"bulletin"}, {"cab"}, {"courses"}, {"index", "meta"}>>[k]

\* an output of step k is missing from data/ as d
OutputMissing(d, k) == \E f \in Outputs(k) : d[f] = 0 - 1

\* C25: _ensure_data enters its steps in the order 1, 2, 3, 4; it runs a step
\* exactly when an output of that step is missing when the step is reached;
\* after a run without error every output exists; a run straight after such
\* a run performs no step
C25_StepsRunWhenMissing ==
    steps.status # "none" =>
        /\ \A i, j \in 1..Len(steps.ran) : i < j => steps.ran[i] < steps.ran[j]
        /\ \A k \in 1..Len(steps.seen) :
              (\E i \in 1..Len(steps.ran) : steps.ran[i] = k)
                  <=> OutputMissing(steps.seen[k], k)
        /\ steps.status = "ok" => \A k \in 1..4 : ~OutputMissing(steps.left, k)
        /\ steps.again => steps.ran = <<>>

\* a run that found only the scrape files and did steps 3 and 4
C25_Witness ==
    /\ steps.status = "ok" /\ steps.ran = <<3, 4>>
    /\ ~OutputMissing(steps.seen[1], 1) /\ ~OutputMissing(steps.seen[1], 2)
    /\ OutputMissing(steps.seen[1], 3)

----------------------------------------------------------------------------
(* etl.scrape_bulletin._get *)

MaxRetries == 4      \* largest `retries` given to _get
MaxPages == 3        \* pages fetched one after the other by the scraper

\* the sleep after every failed attempt, the last one too
SleepsAfter_always(attempt, retries) == TRUE

\* `if attempt < retries - 1`: a failed attempt that is not the last one
SleepsAfter(attempt, retries) == attempt < retries - 1

\* time.sleep(2 ** attempt), in seconds
Backoff(attempt) == 2 ^ attempt

\* the scraper has fetched nothing yet
InitGet ==
    /\ courses = <<>>
    /\ tieOrder = "ascending"
    /\ model = "None"
    /\ pc = "idle"
    /\ call = NoCall
    /\ ret = NoRet
    /\ encodeCalls = 0
    /\ bm25Calls = 0
    /\ scorer = "any"
    /\ first = NoFirst
    /\ fn = NoFn
    /\ disk = Built(0 - 1)
    /\ app = Down
    /\ http = NoHttp
    /\ etl = NoEtl
    /\ web = NoWeb
    /\ workers = NoWorkers
    /\ steps = NoSteps

\* resp = _get(url, retries): fetch_department_urls or scrape_department asks
\* for the next page, after the call before it has returned
Call(retries) ==
    /\ web.pc \in {"idle", "done"}
    /\ Len(web.pages) + (IF web.pc = "done" THEN 1 ELSE 0) < MaxPages
    /\ web' = [pc |-> "try", retries |-> retries, attempt |-> 0, tries |-> <<>>,
               waits |-> <<>>, result |-> "none",
               pages |-> IF web.pc = "done"
                         THEN Append(web.pages, web.result)
                         ELSE web.pages]
    /\ UNCHANGED <<ranker, fn, disk, app, http, etl, workers, steps>>

\* one pass of the try block: SESSION.get and raise_for_status succeed and
\* the response is returned, or a RequestException is caught
Attempt(ok) ==
    /\ web.pc = "try" /\ web.attempt < web.retries
    /\ web' = IF ok
              THEN [web EXCEPT !.tries = Append(@, "ok"), !.result = "resp",
                               !.pc = "done"]
              ELSE IF SleepsAfter(web.attempt, web.retries)
              THEN [web EXCEPT !.tries = Append(@, "failed"), !.pc = "sleep"]
              ELSE [web EXCEPT !.tries = Append(@, "failed"),
                               !.attempt = @ + 1]
    /\ UNCHANGED <<ranker, fn, disk, app, http, etl, workers, steps>>

\* time.sleep(2 ** attempt) is over; the loop goes to the next attempt
Sleep ==
    /\ web.pc = "sleep"
    /\ web' = [web EXCEPT !.waits = Append(@, Backoff(web.attempt)),
                          !.attempt = @ + 1, !.pc = "try"]
    /\ UNCHANGED <<ranker, fn, disk, app, http, etl, workers, steps>>

\* range(retries) is exhausted: return None
ReturnNone ==
    /\ web.pc = "try" /\ web.attempt >= web.retries
    /\ web' = [web EXCEPT !.result = "None", !.pc = "done"]
    /\ UNCHANGED <<ranker, fn, disk, app, http, etl, workers, steps>>

\* the next statement of a call of _get under way
GetStep ==
    \/ \E ok \in BOOLEAN : Attempt(ok)
    \/ Sleep
    \/ ReturnNone

NextGet ==
    \/ \E retries \in 0..MaxRetries : Call(retries)
    \/ GetStep

SpecGet == InitGet /\ [][NextGet]_vars

\* the thread running _get goes on: a request ends (timeout = 15), a sleep ends
SpecGetFair == SpecGet /\ WF_vars(GetStep)

(* Properties of _get *)

\* the attempts of the call that failed
Failed == {i \in 1..Len(web.tries) : web.tries[i] = "failed"}

\* what holds of a call of _get at every moment
GetBounded ==
    /\ Len(web.tries) <= web.retries
    /\ \A i \in 1..Len(web.tries) - 1 : web.tries[i] = "failed"
    /\ web.result = "resp" <=> (web.tries # <<>> /\ web.tries[Len(web.tries)] = "ok")
    /\ web.result = "None" =>
          Len(web.tries) = web.retries /\ Cardinality(Failed) = web.retries
    /\ web.pc = "done" =>
          /\ web.result \in {"resp", "None"}
          /\ Len(web.waits) = Cardinality(Failed \ {web.retries})
    /\ \A i \in 1..Len(web.waits) : web.waits[i] = 2 ^ (i - 1)

\* C28: _get makes at most `retries` requests, returns the first response
\* that succeeds, returns None only after `retries` failures in a row, has
\* slept 2^attempt seconds after every failed attempt but the last, and a
\* call under way always returns
C28_RetriesThenReturns ==
    /\ []GetBounded
    /\ (web.pc \in {"try", "sleep"}) ~> (web.pc = "done")

\* four attempts allowed, all failed: None, after sleeping 1, 2 and 4 seconds
C28_Witness ==
    /\ web.pc = "done" /\ web.result = "None" /\ web.retries = 4
    /\ web.tries = <<"failed", "failed", "failed", "failed">>
    /\ web.waits = <<1, 2, 4>>

----------------------------------------------------------------------------
(* _get_model under the server's worker threads *)

\* the server is up over one course; no query has reached _get_model
InitThreads ==
    /\ courses = <<CourseA>>
    /\ tieOrder = "ascending"
    /\ model = "None"
    /\ pc = "idle"
    /\ call = NoCall
    /\ ret = NoRet
    /\ encodeCalls = 0
    /\ bm25Calls = 0
    /\ scorer = "any"
    /\ first = NoFirst
    /\ fn = NoFn
    /\ disk = Built(1)
    /\ app = Serving(1)
    /\ http = NoHttp
    /\ etl = NoEtl
    /\ web = NoWeb
    /\ workers = NoWorkers
    /\ steps = NoSteps

\* thread t at a new line of its call, with what it holds in hand
At(t, line, inst) == [workers.threads EXCEPT ![t] = [pc |-> line, local |-> inst]]

\* the endpoint, run by thread t of the pool, calls _search.query, which
\* reaches _get_model()
Enter(t) ==
    /\ workers.threads[t].pc = "idle"
    /\ workers' = [workers EXCEPT !.threads = At(t, "check", 0)]
    /\ UNCHANGED <<ranker, fn, disk, app, http, etl, web, steps>>

\* if _model is None
Check(t) ==
    /\ workers.threads[t].pc = "check"
    /\ workers' = [workers EXCEPT !.threads =
                      At(t, IF workers.held = 0 THEN "construct" ELSE "return", 0)]
    /\ UNCHANGED <<ranker, fn, disk, app, http, etl, web, steps>>

\* SentenceTransformer(MODEL_NAME): a new instance, not yet stored
Construct(t) ==
    /\ workers.threads[t].pc = "construct"
    /\ workers' = [workers EXCEPT !.threads = At(t, "store", workers.built + 1),
                                  !.built = @ + 1]
    /\ UNCHANGED <<ranker, fn, disk, app, http, etl, web, steps>>

\* _model = <the new instance>
Store(t) ==
    /\ workers.threads[t].pc = "store"
    /\ workers' = [workers EXCEPT !.threads = At(t, "return", 0),
                                  !.held = workers.threads[t].local]
    /\ model' = "loaded"
    /\ UNCHANGED <<courses, tieOrder, pc, call, ret, encodeCalls, bm25Calls,
                   scorer, first, fn, disk, app, http, etl, web, steps>>

\* return _model: the global is read again
Return(t) ==
    /\ workers.threads[t].pc = "return"
    /\ workers' = [workers EXCEPT !.threads = At(t, "encode", workers.held)]
    /\ UNCHANGED <<ranker, fn, disk, app, http, etl, web, steps>>

\* .encode([text], ...) on the instance returned; the call goes on to its end
Encode(t) ==
    /\ workers.threads[t].pc = "encode"
    /\ workers' = [workers EXCEPT !.threads = At(t, "idle", 0),
                                  !.encoded = @ \cup {workers.threads[t].local}]
    /\ UNCHANGED <<ranker, fn, disk, app, http, etl, web, steps>>

NextThreads ==
    \E t \in 1..MaxThreads :
        \/ Enter(t)
        \/ Check(t)
        \/ Construct(t)
        \/ Store(t)
        \/ Return(t)
        \/ Encode(t)

SpecThreads == InitThreads /\ [][NextThreads]_vars

\* C29: however the concurrent calls interleave, the embedding model is
\* constructed at most once and every call encodes with that one instance
C29_ModelBuiltOnce ==
    /\ workers.built <= 1
    /\ Cardinality(workers.encoded) <= 1

=============================================================================
